---- MODULE Spec2Model ----
(***************************************************************************)
(* Model of src/src/main.rs: a binary hash tree (MerkleTree) built from an *)
(* ordered list of data blocks, with inclusion-proof generation and        *)
(* verification.                                                           *)
(*                                                                         *)
(* Byte strings are sequences of integers.  A data block is a one-element  *)
(* sequence <<b>>; the block <<0>> stands for 32 zero bytes, which is the  *)
(* same byte string as the hash field of the padding node.  SHA-256 is the *)
(* symbolic collision-free digest: the digest of x is x between the two    *)
(* marks -1 and -2, so that digests of different inputs differ, no digest  *)
(* equals the 32 zero bytes, and the concatenation of two digests splits   *)
(* in one way only (as for two 32-byte halves of a 64-byte string).        *)
(***************************************************************************)
EXTENDS Integers, Sequences, FiniteSets, TLC

VARIABLES blocks, pc, nodes, rounds, root, g, v, prev

vars == <<blocks, pc, nodes, rounds, root, g, v, prev>>

\* ---------------------------------------------------------------- bounds
MaxN == 5
NumBlocks == 2

\* The block values a tree is built from.
Blocks == {<<b>> : b \in 0..(NumBlocks - 1)}

\* All block lists of length 0..MaxN.
BlockLists == UNION {[1..n -> Blocks] : n \in 0..MaxN}

\* ------------------------------------------------------------------ Node
Zero32 == <<0>>

hash_data_first_byte(data) ==
    <<-1>> \o (IF data = <<>> THEN <<>> ELSE <<Head(data)>>) \o <<-2>>

hash_data(data) == <<-1>> \o data \o <<-2>>

new_leaf_double_hash(data) == [kind |-> "Leaf", hash |-> hash_data(hash_data(data))]

new_leaf(data) == [kind |-> "Leaf", hash |-> hash_data(data)]

Node_default_hash_of_zeros == new_leaf(Zero32)

Node_default == [kind |-> "Leaf", hash |-> Zero32]

get_hash(node) == node.hash

new_internal(left, right) ==
    [kind  |-> "Internal",
     hash  |-> hash_data(get_hash(left) \o get_hash(right)),
     left  |-> left,
     right |-> right]

\* ------------------------------------------------------------ MerkleTree
\* One pass of the for loop over nodes.chunks(2): the new level.
new_level_duplicate_last(level) ==
    [k \in 1..((Len(level) + 1) \div 2) |->
        new_internal(level[2 * k - 1],
                     IF 2 * k <= Len(level) THEN level[2 * k] ELSE level[2 * k - 1])]

new_level_chunks_exact(level) ==
    [k \in 1..(Len(level) \div 2) |-> new_internal(level[2 * k - 1], level[2 * k])]

new_level(level) ==
    [k \in 1..((Len(level) + 1) \div 2) |->
        new_internal(level[2 * k - 1],
                     IF 2 * k <= Len(level) THEN level[2 * k] ELSE Node_default)]

root_hash(tree) == get_hash(tree)

\* Variants of generate_proof_recursive.
RECURSIVE generate_proof_recursive_sides_swapped(_, _, _)
generate_proof_recursive_sides_swapped(node, target_hash, proof) ==
    IF node.kind = "Leaf"
    THEN [found |-> (node.hash = target_hash), proof |-> proof]
    ELSE LET l == generate_proof_recursive_sides_swapped(node.left, target_hash, proof)
         IN  IF l.found
             THEN [found |-> TRUE,
                   proof |-> Append(l.proof, <<get_hash(node.right), TRUE>>)]
             ELSE LET r == generate_proof_recursive_sides_swapped(node.right, target_hash, l.proof)
                  IN  IF r.found
                      THEN [found |-> TRUE,
                            proof |-> Append(r.proof, <<get_hash(node.left), FALSE>>)]
                      ELSE [found |-> FALSE, proof |-> r.proof]

RECURSIVE generate_proof_recursive_push_before_search(_, _, _)
generate_proof_recursive_push_before_search(node, target_hash, proof) ==
    IF node.kind = "Leaf"
    THEN [found |-> (node.hash = target_hash), proof |-> proof]
    ELSE LET l == generate_proof_recursive_push_before_search(node.left, target_hash, proof)
         IN  IF l.found
             THEN [found |-> TRUE,
                   proof |-> Append(l.proof, <<get_hash(node.right), FALSE>>)]
             ELSE LET r == generate_proof_recursive_push_before_search(
                               node.right, target_hash,
                               Append(l.proof, <<get_hash(node.right), FALSE>>))
                  IN  IF r.found
                      THEN [found |-> TRUE,
                            proof |-> Append(r.proof, <<get_hash(node.left), TRUE>>)]
                      ELSE [found |-> FALSE, proof |-> r.proof]

RECURSIVE generate_proof_recursive_right_first(_, _, _)
generate_proof_recursive_right_first(node, target_hash, proof) ==
    IF node.kind = "Leaf"
    THEN [found |-> (node.hash = target_hash), proof |-> proof]
    ELSE LET r == generate_proof_recursive_right_first(node.right, target_hash, proof)
         IN  IF r.found
             THEN [found |-> TRUE,
                   proof |-> Append(r.proof, <<get_hash(node.left), TRUE>>)]
             ELSE LET l == generate_proof_recursive_right_first(node.left, target_hash, r.proof)
                  IN  IF l.found
                      THEN [found |-> TRUE,
                            proof |-> Append(l.proof, <<get_hash(node.right), FALSE>>)]
                      ELSE [found |-> FALSE, proof |-> l.proof]

\* generate_proof_recursive(node, target_hash, proof): the returned bool and
\* the proof vector as the call leaves it.
RECURSIVE generate_proof_recursive(_, _, _)
generate_proof_recursive(node, target_hash, proof) ==
    IF node.kind = "Leaf"
    THEN [found |-> (node.hash = target_hash), proof |-> proof]
    ELSE LET l == generate_proof_recursive(node.left, target_hash, proof)
         IN  IF l.found
             THEN [found |-> TRUE,
                   proof |-> Append(l.proof, <<get_hash(node.right), FALSE>>)]
             ELSE LET r == generate_proof_recursive(node.right, target_hash, l.proof)
                  IN  IF r.found
                      THEN [found |-> TRUE,
                            proof |-> Append(r.proof, <<get_hash(node.left), TRUE>>)]
                      ELSE [found |-> FALSE, proof |-> r.proof]

generate_proof(tree, data) ==
    LET r == generate_proof_recursive(tree, hash_data(data), <<>>)
    IN  IF ~r.found
        THEN [status |-> "ProofGenerationFailed", proof |-> <<>>]
        ELSE [status |-> "Ok", proof |-> r.proof]

\* The for loop of verify_proof: current_hash after the whole proof.
RECURSIVE fold_proof(_, _)
fold_proof(current_hash, proof) ==
    IF proof = <<>>
    THEN current_hash
    ELSE LET sibling_hash == Head(proof)[1]
             is_left      == Head(proof)[2]
             combined     == IF is_left
                             THEN sibling_hash \o current_hash
                             ELSE current_hash \o sibling_hash
         IN  fold_proof(hash_data(combined), Tail(proof))

verify_proof(data, proof, expected_root) ==
    fold_proof(hash_data(data), proof) = expected_root

verify(tree, data, proof) == verify_proof(data, proof, root_hash(tree))

\* --------------------------------------------------------------- inputs
NoCall == [called |-> FALSE]

RECURSIVE InternalNodes(_)
InternalNodes(node) ==
    IF node.kind = "Leaf"
    THEN {}
    ELSE {node} \cup InternalNodes(node.left) \cup InternalNodes(node.right)

\* Data a caller queries with: every block value, one value that is no
\* block of any tree, and the 64-byte strings left.hash ++ right.hash.
QueryData(tree) ==
    {<<b>> : b \in 0..NumBlocks}
        \cup {get_hash(n.left) \o get_hash(n.right) : n \in InternalNodes(tree)}

\* Values a sibling hash is replaced by.
TamperValues(tree, data) ==
    {Zero32, hash_data(<<NumBlocks>>), root_hash(tree), hash_data(data)}

Suffixes(s) == {SubSeq(s, i, Len(s)) : i \in 1..(Len(s) + 1)}

\* The proof with the sibling hash of one element replaced by another value.
Tampered(tree, last) ==
    {[last.proof EXCEPT ![i] = <<h, last.proof[i][2]>>] :
        i \in 1..Len(last.proof), h \in TamperValues(tree, last.data)}
        \ {last.proof}

\* The <<data, proof>> pairs a caller verifies: any data with the proof that
\* generate_proof returned last or with a suffix of it (the proof cut short
\* at the leaf end), and the data of that call with one sibling hash of the
\* proof replaced; any data with the empty proof when there is no proof.
VerifyInputs(tree, last) ==
    IF last.called /\ last.status = "Ok"
    THEN {<<d, s>> : d \in QueryData(tree), s \in Suffixes(last.proof)}
            \cup {<<last.data, t>> : t \in Tampered(tree, last)}
    ELSE {<<d, <<>>>> : d \in QueryData(tree)}

\* ---------------------------------------------------------------- state
Init ==
    /\ blocks \in BlockLists
    /\ pc = "from"
    /\ nodes = <<>>
    /\ rounds = 0
    /\ root = Node_default
    /\ g = NoCall
    /\ v = NoCall
    /\ prev = NoCall

\* MerkleTree::from, up to the call of build_tree.
From ==
    /\ pc = "from"
    /\ nodes' = [i \in 1..Len(blocks) |-> new_leaf(blocks[i])]
    /\ pc' = "build_tree"
    /\ UNCHANGED <<blocks, rounds, root, g, v, prev>>

\* One iteration of the while loop of build_tree.
BuildLevel ==
    /\ pc = "build_tree"
    /\ Len(nodes) > 1
    /\ nodes' = new_level(nodes)
    /\ rounds' = rounds + 1
    /\ UNCHANGED <<blocks, pc, root, g, v, prev>>

\* Loop exit: nodes.pop().expect(..), and from() storing the root.
BuildPop ==
    /\ pc = "build_tree"
    /\ Len(nodes) <= 1
    /\ IF Len(nodes) = 0
       THEN /\ pc' = "panic"
            /\ UNCHANGED <<nodes, root>>
       ELSE /\ pc' = "built"
            /\ root' = nodes[Len(nodes)]
            /\ nodes' = SubSeq(nodes, 1, Len(nodes) - 1)
    /\ UNCHANGED <<blocks, rounds, g, v, prev>>

\* generate_proof and verify are pure functions of the tree and their
\* arguments: g and v only record the last call of each.  A run makes its
\* generate_proof calls, then one verify call; runs with more calls reach
\* the same states.
GenerateProof ==
    /\ pc = "built"
    /\ ~v.called
    /\ \E data \in QueryData(root) :
          LET r == generate_proof(root, data)
          IN  g' = [called |-> TRUE, data |-> data,
                    status |-> r.status, proof |-> r.proof]
    /\ UNCHANGED <<blocks, pc, nodes, rounds, root, v, prev>>

Verify ==
    /\ pc = "built"
    /\ ~v.called
    /\ \E in \in VerifyInputs(root, g) :
          v' = [called |-> TRUE, data |-> in[1], proof |-> in[2],
                expected_root |-> root_hash(root),
                result |-> verify(root, in[1], in[2])]
    /\ UNCHANGED <<blocks, pc, nodes, rounds, root, g, prev>>

Next == From \/ BuildLevel \/ BuildPop \/ GenerateProof \/ Verify

Spec == Init /\ [][Next]_vars

\* A second tree is built from the same list with one block changed
\* (tests::test_merkle_tree_root_hash_changes_with_data).
BuildChanged ==
    /\ pc = "built"
    /\ ~prev.called
    /\ \E i \in 1..Len(blocks), b \in Blocks :
          /\ b # blocks[i]
          /\ blocks' = [blocks EXCEPT ![i] = b]
    /\ prev' = [called |-> TRUE, blocks |-> blocks, root_hash |-> root_hash(root)]
    /\ pc' = "from"
    /\ nodes' = <<>>
    /\ rounds' = 0
    /\ root' = Node_default
    /\ UNCHANGED <<g, v>>

NextPair == From \/ BuildLevel \/ BuildPop \/ BuildChanged

SpecPair == Init /\ [][NextPair]_vars

\* ------------------------------------------------------------ properties
Range(s) == {s[i] : i \in 1..Len(s)}

\* The last generate_proof call returned a proof for a block of the tree.
ProofOfBlock == g.called /\ g.status = "Ok" /\ g.data \in Range(blocks)

\* The last verify call was made with the data and the proof of the last
\* generate_proof call.
VerifiedAsGenerated == v.called /\ v.data = g.data /\ v.proof = g.proof

\* C1 (completeness): generate_proof of any block that occurs in the list the
\* tree was built from returns Ok(proof), and verifying that block with that
\* proof against the root hash returns true.
C1_Completeness ==
    /\ (g.called /\ g.data \in Range(blocks)) => g.status = "Ok"
    /\ (ProofOfBlock /\ VerifiedAsGenerated) => v.result = TRUE

\* The last block of a three-block list, which is no copy of an earlier one
\* and is paired with the padding node, was proved and verified.
C1_Witness ==
    /\ Len(blocks) = 3
    /\ blocks[3] \notin {blocks[1], blocks[2]}
    /\ ProofOfBlock /\ g.data = blocks[3]
    /\ VerifiedAsGenerated /\ v.result = TRUE

\* C2 (soundness of generation): generate_proof of data that equals no block
\* of the list returns ProofGenerationFailed and no proof.
C2_AbsentDataFails ==
    (g.called /\ g.data \notin Range(blocks))
        => (g.status = "ProofGenerationFailed" /\ g.proof = <<>>)

\* 32 zero bytes, which no block of a padded three-block tree equals, were
\* queried and rejected.
C2_Witness ==
    /\ Len(blocks) = 3
    /\ g.called /\ g.data = Zero32 /\ Zero32 \notin Range(blocks)
    /\ g.status = "ProofGenerationFailed"

\* C3 (empty input): building from the empty list ends with the error
\* EmptyInput returned to the caller.
C3_EmptyInputError ==
    (blocks = <<>> /\ pc \notin {"from", "build_tree"}) => pc = "EmptyInput"

\* new is old with the sibling hash of exactly one element replaced.
OneSiblingReplaced(old, new) ==
    /\ Len(new) = Len(old)
    /\ \E i \in 1..Len(old) :
          /\ new[i][1] # old[i][1]
          /\ new[i][2] = old[i][2]
          /\ \A j \in 1..Len(old) : j # i => new[j] = old[j]

\* C4 (tamper detection): with a proof generated for a block of the tree,
\* verification returns false (a) for that block and the proof with one
\* sibling hash replaced by a different value, (b) for different data and
\* the proof unchanged.
C4_TamperDetected ==
    /\ (ProofOfBlock /\ v.called /\ v.data = g.data
            /\ OneSiblingReplaced(g.proof, v.proof)) => v.result = FALSE
    /\ (ProofOfBlock /\ v.called /\ v.data # g.data
            /\ v.proof = g.proof) => v.result = FALSE

\* A sibling hash other than the first one of a generated proof was replaced
\* and the proof was rejected.
C4_Witness ==
    /\ ProofOfBlock /\ v.called /\ v.data = g.data
    /\ OneSiblingReplaced(g.proof, v.proof)
    /\ Len(g.proof) >= 2 /\ v.proof[1] = g.proof[1]
    /\ v.result = FALSE

\* a and b have the same length and differ at exactly one index.
DifferInOneBlock(a, b) ==
    /\ Len(a) = Len(b)
    /\ Cardinality({i \in 1..Len(a) : a[i] # b[i]}) = 1

\* C5 (sensitivity): two trees built from lists of the same length that
\* differ in exactly one block have different root hashes.
C5_Sensitivity ==
    (pc = "built" /\ prev.called /\ DifferInOneBlock(prev.blocks, blocks))
        => root_hash(root) # prev.root_hash

\* The second tree was built from a five-block list whose last block, the
\* unpaired one of the leaf level, was changed.
C5_Witness ==
    /\ pc = "built" /\ prev.called
    /\ Len(blocks) = 5
    /\ blocks[5] # prev.blocks[5]
    /\ root_hash(root) # prev.root_hash

\* C6 (singleton): the tree of a one-block list is that block's leaf, built
\* without a reduction round; generate_proof of the block returns the empty
\* proof, and verifying the block with the empty proof returns true.
C6_Singleton ==
    (pc = "built" /\ Len(blocks) = 1) =>
        /\ root = [kind |-> "Leaf", hash |-> hash_data(blocks[1])]
        /\ root_hash(root) = hash_data(blocks[1])
        /\ rounds = 0
        /\ (g.called /\ g.data = blocks[1]) => (g.status = "Ok" /\ g.proof = <<>>)
        /\ (v.called /\ v.data = blocks[1] /\ v.proof = <<>>) => v.result = TRUE

\* The block of a one-block tree was proved and verified.
C6_Witness ==
    /\ pc = "built" /\ Len(blocks) = 1
    /\ g.called /\ g.data = blocks[1] /\ g.proof = <<>>
    /\ VerifiedAsGenerated /\ v.result = TRUE

PAD == [kind |-> "Leaf", hash |-> <<0>>]

H(l, r) == <<-1>> \o l \o r \o <<-2>>

\* new is old reduced by one round: adjacent pairs in order, the unpaired
\* last node of an odd level with the padding node on its right.
Reduced(old, new) ==
    /\ Len(new) = (Len(old) + 1) \div 2
    /\ \A k \in 1..Len(new) :
          /\ new[k].kind = "Internal"
          /\ new[k].left = old[2 * k - 1]
          /\ new[k].right = (IF 2 * k <= Len(old) THEN old[2 * k] ELSE PAD)
          /\ new[k].hash = H(new[k].left.hash, new[k].right.hash)

\* The root hash of a five-block list, written out.
FiveBlockRoot(b) ==
    LET l(i) == <<-1>> \o b[i] \o <<-2>>
    IN  H(H(H(l(1), l(2)), H(l(3), l(4))), H(H(l(5), PAD.hash), PAD.hash))

\* C7 (padding policy): every round of the build turns a level of n > 1
\* nodes into ceil(n/2) Internal nodes over adjacent pairs in order, the
\* unpaired last node of an odd level getting the padding node as right
\* child; the build ends when one node remains, which becomes the root;
\* for five blocks the root hash is
\* H(H(H(l0,l1),H(l2,l3)),H(H(l4,PAD),PAD)).
C7_PaddingPolicy ==
    [][/\ (pc = "build_tree" /\ Len(nodes) > 1) =>
              (pc' = "build_tree" /\ Reduced(nodes, nodes'))
       /\ (pc = "build_tree" /\ pc' = "built") =>
              /\ Len(nodes) = 1
              /\ root' = nodes[1]
              /\ Len(blocks) = 5 => root_hash(root') = FiveBlockRoot(blocks)
      ]_vars

\* A five-block tree was built, padded at the leaf level and at the level
\* above it.
C7_Witness ==
    /\ pc = "built" /\ Len(blocks) = 5 /\ rounds = 3
    /\ root.right.right = PAD
    /\ root.right.left.right = PAD

RECURSIVE CeilLog2(_)
CeilLog2(n) == IF n <= 1 THEN 0 ELSE 1 + CeilLog2((n + 1) \div 2)

\* proof, read from its last element to its first, leads from node down to a
\* leaf with hash target: each element holds the hash of the child that is
\* left aside, and its flag is true exactly when that child is the left one.
RECURSIVE LeadsToLeaf(_, _, _)
LeadsToLeaf(node, proof, target) ==
    IF proof = <<>>
    THEN node.kind = "Leaf" /\ node.hash = target
    ELSE LET e    == proof[Len(proof)]
             rest == SubSeq(proof, 1, Len(proof) - 1)
         IN  /\ node.kind = "Internal"
             /\ IF e[2]
                THEN e[1] = node.left.hash /\ LeadsToLeaf(node.right, rest, target)
                ELSE e[1] = node.right.hash /\ LeadsToLeaf(node.left, rest, target)

\* C8 (proof shape): a returned proof has one element per ancestor of the
\* leaf, as many as the build had reduction rounds (ceil(log2 N); 2 for
\* N = 3), in leaf-to-root order, each element the hash of the sibling at
\* its level with the flag true exactly when the sibling is the left child.
C8_ProofShape ==
    (g.called /\ g.status = "Ok") =>
        /\ Len(g.proof) = rounds
        /\ rounds = CeilLog2(Len(blocks))
        /\ Len(blocks) = 3 => Len(g.proof) = 2
        /\ LeadsToLeaf(root, g.proof, <<-1>> \o g.data \o <<-2>>)

\* A proof of three elements was returned for a leaf found in the right
\* subtree of the root after the left subtree was searched without a match.
C8_Witness ==
    /\ g.called /\ g.status = "Ok"
    /\ Len(g.proof) = 3
    /\ g.proof[3][2] = TRUE
    /\ g.proof[1][2] = FALSE

\* The leaf hashes of a tree, left to right.
RECURSIVE LeafHashes(_)
LeafHashes(node) ==
    IF node.kind = "Leaf"
    THEN <<node.hash>>
    ELSE LeafHashes(node.left) \o LeafHashes(node.right)

\* The sibling path of the i-th leaf (left to right) of a tree.
RECURSIVE SiblingPath(_, _)
SiblingPath(node, i) ==
    IF node.kind = "Leaf"
    THEN <<>>
    ELSE LET nl == Len(LeafHashes(node.left))
         IN  IF i <= nl
             THEN Append(SiblingPath(node.left, i), <<node.right.hash, FALSE>>)
             ELSE Append(SiblingPath(node.right, i - nl), <<node.left.hash, TRUE>>)

Occurrences(data) == {i \in 1..Len(blocks) : blocks[i] = data}

Lowest(S) == CHOOSE i \in S : \A j \in S : i <= j

\* C9 (first match): the i-th leaf of the tree is the leaf of the i-th
\* block, and generate_proof of data that occurs in the list returns the
\* sibling path of the leaf at the lowest index where it occurs; that proof
\* verifies against the root.
C9_FirstMatch ==
    (g.called /\ Occurrences(g.data) # {}) =>
        /\ \A i \in 1..Len(blocks) :
              LeafHashes(root)[i] = <<-1>> \o blocks[i] \o <<-2>>
        /\ g.status = "Ok"
        /\ g.proof = SiblingPath(root, Lowest(Occurrences(g.data)))
        /\ VerifiedAsGenerated => v.result = TRUE

\* A block that occurs at two indices with different sibling paths was
\* proved, and the proof verified.
C9_Witness ==
    /\ g.called /\ g.status = "Ok"
    /\ \E i, j \in Occurrences(g.data) :
          i < j /\ SiblingPath(root, i) # SiblingPath(root, j)
    /\ VerifiedAsGenerated /\ v.result = TRUE

\* C10 (verification implies membership): data that verifies against the
\* root, with whatever proof, equals one of the blocks the tree was built
\* from.
C10_VerifiedIsBlock ==
    (v.called /\ v.result = TRUE) => v.data \in Range(blocks)
====
